---- MODULE Spec2Model ----
(***************************************************************************)
(* A model of src/src/queue.rs: ReaderWriterQueue, a ring of Blocks with   *)
(* one producer-side and one consumer-side block pointer.                  *)
(*                                                                         *)
(* Memory is modelled explicitly.  make_block (queue.rs:309-318) returns   *)
(* Box::new(..).as_mut() as a raw pointer: the Box is a temporary, it is   *)
(* dropped when make_block returns, and every Block pointer the queue      *)
(* keeps points into memory that has been given back to the allocator.     *)
(* What such memory holds afterwards is the allocator's choice; the model  *)
(* keeps it as a nondeterministic choice: a later Box::new may be given    *)
(* the same chunk again or a new one, and free() may keep the contents or  *)
(* store a free-list word over the first field of the chunk.               *)
(***************************************************************************)
EXTENDS Integers, Sequences, FiniteSets, TLC

(***************************************************************************)
(* Bounds of the model.                                                    *)
(***************************************************************************)
\* capacity hints passed to with_size are 0..MaxHint
MaxHint == 4
\* producer-side calls (enqueue / try_enqueue) made in one run of SpecQueue
MaxEnqueues == 3
\* consumer-side calls (try_dequeue / peek) made in one run of SpecQueue
MaxDequeues == 3
\* try_enqueue calls made in one run of SpecCapacity
MaxTryEnqueues == 5
\* calls each side makes in one run of Spec
MaxHandleCalls == 1
\* blocks visited by one ring walk (drop, size_approx, max_capacity) before
\* the walk is cut; a walk of a well-formed ring never reaches it
MaxWalk == 8

(***************************************************************************)
(* Program constants.                                                      *)
(***************************************************************************)
\* width of usize in the model, in bits (size_of::<usize>() == WordBits / 8)
WordBits == 16
\* the value from_other gives other.largest_block_size
TransferBlockSize == 32

WordBytes == WordBits \div 8
WordMod == 2 ^ WordBits

\* the values MAX_BLOCK_SIZE takes in the model (both pass the asserts of with_size)
MaxBlockSizes == {2, 4}

NULL == 0

\* what a read of storage that was never written may yield: a word that is no
\* element, or one that looks like the first element
Uninit == {0, 1}

Handles == {"src", "item"}

(***************************************************************************)
(* Word arithmetic.                                                        *)
(***************************************************************************)
RECURSIVE BitOr(_, _)
BitOr(a, b) ==
    IF a = 0 THEN b
    ELSE IF b = 0 THEN a
    ELSE (IF (a % 2 = 1) \/ (b % 2 = 1) THEN 1 ELSE 0)
         + 2 * BitOr(a \div 2, b \div 2)

RECURSIVE BitAnd(_, _)
BitAnd(a, b) ==
    IF a = 0 \/ b = 0 THEN 0
    ELSE (IF (a % 2 = 1) /\ (b % 2 = 1) THEN 1 ELSE 0)
         + 2 * BitAnd(a \div 2, b \div 2)

Shr(x, k) == x \div (2 ^ k)

\* x |= x >> k
Smear(x, k) == BitOr(x, Shr(x, k))

\* the loop of ceil_to_pow2: i = 1, 2, 4, ... while i < size_of::<usize>()
RECURSIVE SmearBytes(_, _)
SmearBytes(x, i) ==
    IF i < WordBytes THEN SmearBytes(Smear(x, i * 8), i * 2) ELSE x

\* ceil_to_pow2 on WordBits-bit words; x - 1 and x + 1 wrap as in a release build
ceil_to_pow2(x) ==
    LET x0 == (x - 1) % WordMod
        x1 == Smear(x0, 1)
        x2 == Smear(x1, 2)
        x3 == Smear(x2, 4)
        x4 == SmearBytes(x3, 1)
    IN  (x4 + 1) % WordMod

\* whether x -= 1 (line 390) or x += 1 (line 399) leaves the word: a debug
\* build panics there, a release build wraps
ceil_to_pow2_wraps(x) ==
    LET x0 == (x - 1) % WordMod
        x4 == SmearBytes(Smear(Smear(Smear(x0, 1), 2), 4), 1)
    IN  x - 1 < 0 \/ x4 + 1 >= WordMod

(***************************************************************************)
(* The heap.  A Block lives in one chunk; chunks are named 1..MaxAddr and  *)
(* brk is the chunk handed out last.  What Box::new and the drop of the    *)
(* Box do is the allocator's: alloc says whether it hands the chunk just   *)
(* freed to the next Box::new of the same size (reuse) and whether free    *)
(* stores its free-list word over the first word of the chunk (scribble).  *)
(***************************************************************************)
\* with_size(n) links at most n + 1 blocks (MAX_BLOCK_SIZE = 2); from_other adds one
MaxAddr == MaxHint + 2
Addr == 1..MaxAddr

Allocators == [reuse : BOOLEAN, scribble : BOOLEAN]

\* the free-list word free() stores, as a cursor value
FreeListWords == {1}
FreedWord(al, v) == IF al.scribble THEN CHOOSE w \in FreeListWords : TRUE ELSE v

\* a chunk the allocator has not handed out yet
NoBlock ==
    [front |-> 0, local_tail |-> 0, tail |-> 0, local_front |-> 0,
     next |-> NULL, size_mask |-> 0, freed |-> FALSE]

\* Block::new(size, raw_this, data); freed says whether the Box that held the
\* Block has been dropped
BlockNew(size) ==
    [front |-> 0, local_tail |-> 0, tail |-> 0, local_front |-> 0,
     next |-> NULL, size_mask |-> size - 1, freed |-> FALSE]

\* the chunk Box::new is given: the one freed last, or the next new one
Chunk(al, b) == IF al.reuse /\ b > 0 THEN b
                ELSE IF b < MaxAddr THEN b + 1 ELSE MaxAddr

\* make_block(capacity): the Block is written into a chunk, the Box is dropped
\* on return, and the pointer returned dangles.  The outcome is the memory
\* after the call, the chunk handed out last and the pointer.
make_block(al, m, b, capacity) ==
    LET a == Chunk(al, b)
        blk == BlockNew(capacity)
    IN  [mem   |-> [m EXCEPT ![a] = [blk EXCEPT !.front = FreedWord(al, blk.front),
                                                !.freed = TRUE]],
         brk   |-> a,
         block |-> a]

\* one turn of the loop of with_size (lines 72-81)
WithSizeStep(st, o) ==
    LET first == IF st.first = NULL THEN o.block ELSE st.first
        m1    == IF st.first = NULL THEN o.mem
                 ELSE [o.mem EXCEPT ![st.last].next = o.block]
    IN  [mem   |-> [m1 EXCEPT ![o.block].next = first],
         brk   |-> o.brk,
         first |-> first,
         last  |-> o.block]

RECURSIVE WithSizeLoop(_, _, _, _, _)
WithSizeLoop(al, i, count, size, st) ==
    IF i >= count THEN st
    ELSE WithSizeLoop(al, i + 1, count, size,
                      WithSizeStep(st, make_block(al, st.mem, st.brk, size)))

\* the asserts of with_size on MAX_BLOCK_SIZE
ValidMaxBlockSize(mbs) == mbs = ceil_to_pow2(mbs) /\ mbs >= 2

\* initial_block_count of with_size
initial_block_count(size, mbs) == (size + mbs * 2 - 3) \div (mbs - 1)

\* with_size(size): the memory, the chunk handed out last and the fields of
\* the handle
with_size(al, size, mbs) ==
    LET target == ceil_to_pow2((size + 1) % WordMod)
        empty  == [mem |-> [a \in Addr |-> NoBlock], brk |-> 0,
                   first |-> NULL, last |-> NULL]
        o      == make_block(al, empty.mem, empty.brk, target)
        r      == IF target > mbs * 2
                  THEN WithSizeLoop(al, 0, initial_block_count(size, mbs), mbs, empty)
                  ELSE [mem   |-> [o.mem EXCEPT ![o.block].next = o.block],
                        brk   |-> o.brk,
                        first |-> o.block,
                        last  |-> o.block]
    IN  [mem |-> r.mem, brk |-> r.brk,
         front_block |-> r.first, tail_block |-> r.first,
         largest_block_size |-> IF target > mbs * 2 THEN mbs ELSE target]

(***************************************************************************)
(* Ring walks: size_approx, max_capacity and drop follow next from         *)
(* front_block until they are back at front_block.                         *)
(***************************************************************************)
\* the blocks a walk from front_block visits, in order; cut after MaxWalk blocks
RECURSIVE WalkFrom(_, _, _, _)
WalkFrom(m, start, block, seen) ==
    LET seen1 == Append(seen, block)
        nxt   == m[block].next
    IN  IF nxt = start \/ nxt = NULL \/ Len(seen1) >= MaxWalk THEN seen1
        ELSE WalkFrom(m, start, nxt, seen1)

Walk(m, start) == WalkFrom(m, start, start, <<>>)

RECURSIVE SumSeq(_)
SumSeq(s) == IF s = <<>> THEN 0 ELSE Head(s) + SumSeq(Tail(s))

\* size_approx(): sum of (tail - front) & size_mask over the walk
size_approx(m, front_block) ==
    LET w == Walk(m, front_block)
    IN  SumSeq([i \in 1..Len(w) |->
                  BitAnd((m[w[i]].tail - m[w[i]].front) % WordMod, m[w[i]].size_mask)])

\* max_capacity(): sum of size_mask over the walk
max_capacity(m, front_block) ==
    LET w == Walk(m, front_block)
    IN  SumSeq([i \in 1..Len(w) |-> m[w[i]].size_mask])

(***************************************************************************)
(* State.                                                                  *)
(***************************************************************************)
VARIABLES
    mem,      \* the Block in each chunk
    brk,      \* the chunk handed out last
    alloc,    \* the allocator the build links
    maxbs,    \* MAX_BLOCK_SIZE of the queue type
    hint,     \* the size given to with_size
    queues,   \* the two handles: src (built by with_size) and item (from_other)
    prod,     \* the producer thread: its call in progress
    cons,     \* the consumer thread: its call in progress
    walk,     \* the drop in progress
    enq,      \* per handle, the elements whose enqueue returned true, in order
    refused,  \* per handle, the try_enqueue calls that returned false
    growfail, \* per handle, the enqueue calls that returned false
    deq,      \* per handle, the values try_dequeue returned, in order
    nprod,    \* producer-side calls started
    ncons,    \* consumer-side calls started
    word      \* the call of ceil_to_pow2 on its own: argument and result

\* what no operation of the queue changes
config == <<alloc, maxbs, hint, word>>
history == <<enq, refused, growfail, deq>>
vars == <<mem, brk, config, queues, prod, cons, walk, history, nprod, ncons>>

\* a handle that does not exist (item before from_other)
NoQueue ==
    [state |-> "none", front_block |-> NULL, tail_block |-> NULL,
     largest_block_size |-> 0, enqueuing |-> FALSE, dequeuing |-> FALSE]

ProdIdle == [pc |-> "idle", h |-> "src", element |-> 0, can_alloc |-> FALSE,
             ok |-> FALSE, guard |-> FALSE]

\* nprod0: the producer-side calls started when the call began, if the producer
\* was idle then (-1 if it was not)
ConsIdle == [pc |-> "idle", op |-> "none", h |-> "src", front_block_ |-> NULL,
             block_tail |-> 0, block_front |-> 0, branch |-> "none",
             some |-> FALSE, value |-> 0, cleaned |-> FALSE, guard |-> FALSE,
             nprod0 |-> 0]

NoWalk == [h |-> "src", block |-> NULL, visited |-> <<>>]

\* no call of ceil_to_pow2 on its own
NoWord == [pc |-> "idle", x |-> 0, ret |-> 0, wraps |-> FALSE]

\* the values of a usize
Words == 0..(WordMod - 1)

\* the state with_size returns
Constructed ==
    /\ maxbs \in {b \in MaxBlockSizes : ValidMaxBlockSize(b)}
    /\ hint \in 0..MaxHint
    /\ alloc \in Allocators
    /\ LET o == with_size(alloc, hint, maxbs)
       IN /\ mem = o.mem
          /\ brk = o.brk
          /\ queues = [h \in Handles |->
                IF h = "src"
                THEN [state |-> "live", front_block |-> o.front_block,
                      tail_block |-> o.tail_block,
                      largest_block_size |-> o.largest_block_size,
                      enqueuing |-> FALSE, dequeuing |-> FALSE]
                ELSE NoQueue]
    /\ prod = ProdIdle
    /\ cons = ConsIdle
    /\ walk = NoWalk
    /\ enq = [h \in Handles |-> <<>>]
    /\ refused = [h \in Handles |-> 0]
    /\ growfail = [h \in Handles |-> 0]
    /\ deq = [h \in Handles |-> <<>>]
    /\ nprod = 0
    /\ ncons = 0

Init == Constructed /\ word = NoWord

\* ceil_to_pow2 about to be called on any word, beside one queue
InitCeil ==
    /\ Constructed
    /\ hint = 0
    /\ maxbs = 2
    /\ alloc = [reuse |-> FALSE, scribble |-> FALSE]
    /\ word \in {[NoWord EXCEPT !.pc = "call", !.x = x] : x \in Words}

\* no drop is in progress
Quiet == \A g \in Handles : queues[g].state # "dropping"

(***************************************************************************)
(* ReentrantGuard (lines 10-30).                                           *)
(***************************************************************************)
\* ReentrantGuard::new(in_section): the assert passes iff the flag is clear
GuardAdmits(in_section) == ~in_section

\* the in_section of the guard built by new: a fresh AtomicBool::new(true)
GuardNew == TRUE

\* Drop for ReentrantGuard stores false into the guard's own in_section
GuardDrop == FALSE

(***************************************************************************)
(* Producer: try_enqueue, enqueue, inner_enqueue (lines 122-128, 301-307). *)
(***************************************************************************)
\* inner_enqueue as it would be if it wrote into the tail block alone: when that
\* block is full it neither moves to the next block nor grows
inner_enqueue_single_block(m, q, element, can_alloc) ==
    LET tb == q.tail_block
        nt == BitAnd(m[tb].tail + 1, m[tb].size_mask)
    IN  IF nt # m[tb].front
        THEN [ok |-> TRUE, mem |-> [m EXCEPT ![tb].tail = nt], queue |-> q]
        ELSE [ok |-> FALSE, mem |-> m, queue |-> q]

\* inner_enqueue as it would be if it took can_alloc the wrong way round
inner_enqueue_inverted(m, q, element, can_alloc) ==
    [ok |-> ~can_alloc, mem |-> m, queue |-> q]

\* inner_enqueue as it would be if it spliced a new block in after the tail
\* block without asking can_alloc
inner_enqueue_splices(m, q, element, can_alloc) ==
    LET tb   == q.tail_block
        free == {a \in Addr : m[a] = NoBlock}
    IN  IF free = {} THEN [ok |-> TRUE, mem |-> m, queue |-> q]
        ELSE LET a == CHOOSE x \in free : TRUE
                 m1 == [m EXCEPT ![a] = [BlockNew(q.largest_block_size)
                                           EXCEPT !.next = m[tb].next]]
             IN  [ok |-> TRUE, mem |-> [m1 EXCEPT ![tb].next = a], queue |-> q]

\* inner_enqueue(element, can_alloc) after its guard (lines 305-306): the value
\* returned, and the memory and the handle it leaves.  It writes no slot and
\* no cursor: element is dropped when the function returns.
inner_enqueue(m, q, element, can_alloc) ==
    [ok |-> TRUE, mem |-> m, queue |-> q]

\* try_enqueue(element) / enqueue(element) is called: inner_enqueue builds its
\* guard (line 303).  The j-th call enqueues j.
EnqueueCall(h, can_alloc, limit) ==
    /\ prod.pc = "idle"
    /\ queues[h].state = "live"
    /\ Quiet
    /\ nprod < limit
    /\ nprod' = nprod + 1
    /\ prod' = [ProdIdle EXCEPT
                  !.pc = IF GuardAdmits(queues[h].enqueuing) THEN "enq_body"
                         ELSE "panic",
                  !.h = h, !.element = nprod + 1, !.can_alloc = can_alloc,
                  !.guard = GuardNew]
    /\ UNCHANGED <<mem, brk, config, queues, cons, walk, history, ncons>>

\* lines 305-306: the body of inner_enqueue
EnqueueBody ==
    /\ prod.pc = "enq_body"
    /\ LET r == inner_enqueue(mem, queues[prod.h], prod.element, prod.can_alloc)
       IN  /\ mem' = r.mem
           /\ queues' = [queues EXCEPT ![prod.h] = r.queue]
           /\ prod' = [prod EXCEPT !.pc = "enq_ret", !.ok = r.ok]
    /\ UNCHANGED <<brk, config, cons, walk, history, nprod, ncons>>

\* inner_enqueue returns: the guard goes out of scope, the caller has the result
EnqueueReturn ==
    /\ prod.pc = "enq_ret"
    /\ enq' = [enq EXCEPT ![prod.h] = IF prod.ok THEN Append(@, prod.element) ELSE @]
    /\ refused' = [refused EXCEPT ![prod.h] =
                     IF ~prod.ok /\ ~prod.can_alloc THEN @ + 1 ELSE @]
    /\ growfail' = [growfail EXCEPT ![prod.h] =
                     IF ~prod.ok /\ prod.can_alloc THEN @ + 1 ELSE @]
    /\ prod' = [ProdIdle EXCEPT !.guard = GuardDrop]
    /\ UNCHANGED <<mem, brk, config, queues, cons, walk, deq, nprod, ncons>>

(***************************************************************************)
(* Consumer: try_dequeue (lines 130-209).                                  *)
(***************************************************************************)
\* what the consumer records of the producer when a call begins
ProducerMark == IF prod.pc = "idle" THEN nprod ELSE -1

\* lines 131-134: the loads that open try_dequeue
TryDequeueBegin(h, limit) ==
    /\ cons.pc = "idle"
    /\ queues[h].state = "live"
    /\ Quiet
    /\ ncons < limit
    /\ ncons' = ncons + 1
    /\ LET fb == queues[h].front_block
       IN  cons' = [ConsIdle EXCEPT !.pc = "deq_test", !.op = "try_dequeue",
                                    !.h = h, !.front_block_ = fb,
                                    !.block_tail = mem[fb].local_tail,
                                    !.block_front = mem[fb].front,
                                    !.nprod0 = ProducerMark]
    /\ UNCHANGED <<mem, brk, config, queues, prod, walk, history, nprod>>

\* lines 137-142 and 157: which branch try_dequeue takes, and the memory after
\* the reload of local_tail the condition makes when the cached cursors agree
try_dequeue_test(m, q, c) ==
    IF c.block_front # c.block_tail
    THEN [mem |-> m, branch |-> "non_empty"]
    ELSE LET fb == c.front_block_
             m1 == [m EXCEPT ![fb].local_tail = m[fb].tail]
         IN  [mem |-> m1,
              branch |-> IF c.block_front # m1[fb].local_tail THEN "non_empty"
                         ELSE IF fb # q.tail_block THEN "advance"
                         ELSE "empty"]

TryDequeueTest ==
    /\ cons.pc = "deq_test"
    /\ LET r == try_dequeue_test(mem, queues[cons.h], cons)
       IN  /\ mem' = r.mem
           /\ cons' = [cons EXCEPT !.pc = "deq_act", !.branch = r.branch]
    /\ UNCHANGED <<brk, config, queues, prod, walk, history, nprod, ncons>>

\* the cursor update of try_dequeue as it would be if it published the advanced
\* cursor in tail instead of front
take_front_moves_tail(m, fb, block_front) ==
    [m EXCEPT ![fb].tail = BitAnd(block_front + 1, m[fb].size_mask)]

\* lines 146-156 (and 167-175, 195-204): read the slot at block_front of block
\* fb, run drop_in_place on it and publish the advanced read cursor
take_front(m, fb, block_front) ==
    [m EXCEPT ![fb].front = BitAnd(block_front + 1, m[fb].size_mask)]

\* try_dequeue as it would be if it asserted, on the empty branch, that the
\* queue holds an element
try_dequeue_act_asserts(m, q, c, v) ==
    [mem |-> m, front_block |-> q.front_block,
     some |-> FALSE, value |-> 0, cleaned |-> FALSE,
     panic |-> c.branch # "non_empty"]

\* the body of the branch taken: the memory, the handle's front_block, the
\* result, whether drop_in_place ran on the slot the result was read from
\* (lines 149, 170, 199) and whether an assert or unwrap failed.  v is what the slot read holds.
try_dequeue_act(m, q, c, v) ==
    LET fb == c.front_block_
    IN  IF c.branch = "non_empty"
        THEN [mem |-> take_front(m, fb, c.block_front),
              front_block |-> q.front_block,
              some |-> TRUE, value |-> v, cleaned |-> TRUE,
                       panic |-> FALSE]
        ELSE IF c.branch = "advance"
        THEN \* lines 158-204
             LET m1 == [m EXCEPT ![fb].local_tail = m[fb].tail]
                 block_tail == m1[fb].local_tail
                 nb == m1[fb].next
             IN  IF c.block_front # block_tail
                 THEN [mem |-> take_front(m1, fb, c.block_front),
                       front_block |-> q.front_block,
                       some |-> TRUE, value |-> v, cleaned |-> TRUE,
                       panic |-> FALSE]
                 ELSE IF nb = NULL
                 THEN [mem |-> m1, front_block |-> q.front_block,
                       some |-> FALSE, value |-> 0, cleaned |-> FALSE,
                       panic |-> TRUE]
                 ELSE LET next_block_front == m1[nb].front
                          m2 == [m1 EXCEPT ![nb].local_tail = m1[nb].tail]
                          next_block_tail == m2[nb].local_tail
                      IN  IF next_block_front = next_block_tail
                          THEN [mem |-> m2, front_block |-> q.front_block,
                                some |-> FALSE, value |-> 0, cleaned |-> FALSE,
                       panic |-> TRUE]
                          ELSE [mem |-> take_front(m2, nb, next_block_front),
                                front_block |-> nb,
                                some |-> TRUE, value |-> v, cleaned |-> TRUE,
                       panic |-> FALSE]
        ELSE \* lines 205-207
             [mem |-> m, front_block |-> q.front_block,
              some |-> FALSE, value |-> 0, cleaned |-> FALSE,
              panic |-> FALSE]

\* inner_enqueue writes no slot, so every slot is storage as alloc returned it:
\* ptr::read yields whatever it holds
TryDequeueAct ==
    /\ cons.pc = "deq_act"
    /\ \E v \in Uninit :
          LET r == try_dequeue_act(mem, queues[cons.h], cons, v)
          IN  /\ mem' = r.mem
              /\ queues' = [queues EXCEPT ![cons.h].front_block = r.front_block]
              /\ cons' = [cons EXCEPT !.pc = IF r.panic THEN "panic" ELSE "deq_ret",
                                      !.some = r.some,
                                      !.cleaned = r.cleaned,
                                      !.value = IF r.some THEN r.value ELSE 0]
    /\ UNCHANGED <<brk, config, prod, walk, history, nprod, ncons>>

\* line 208 (and 177): try_dequeue returns
TryDequeueReturn ==
    /\ cons.pc = "deq_ret"
    /\ deq' = [deq EXCEPT ![cons.h] = IF cons.some THEN Append(@, cons.value) ELSE @]
    /\ cons' = ConsIdle
    /\ UNCHANGED <<mem, brk, config, queues, prod, walk, enq, refused, growfail,
                   nprod, ncons>>

(***************************************************************************)
(* Consumer: peek (lines 211-258).                                         *)
(***************************************************************************)
\* lines 212-218: the guard on dequeuing, then the loads that open peek
PeekBegin(h, limit) ==
    /\ cons.pc = "idle"
    /\ queues[h].state = "live"
    /\ Quiet
    /\ ncons < limit
    /\ ncons' = ncons + 1
    /\ LET fb == queues[h].front_block
       IN  cons' = [ConsIdle EXCEPT
                      !.pc = IF GuardAdmits(queues[h].dequeuing) THEN "peek_test"
                             ELSE "panic",
                      !.op = "peek", !.h = h, !.front_block_ = fb,
                      !.block_tail = mem[fb].local_tail,
                      !.block_front = mem[fb].front,
                      !.guard = GuardNew,
                      !.nprod0 = ProducerMark]
    /\ UNCHANGED <<mem, brk, config, queues, prod, walk, history, nprod>>

\* lines 220-224 and 230: which branch peek takes
peek_test(m, q, c) ==
    IF c.block_front # c.block_tail
    THEN [mem |-> m, branch |-> "non_empty"]
    ELSE LET fb == c.front_block_
             m1 == [m EXCEPT ![fb].local_tail = m[fb].tail]
         IN  [mem |-> m1,
              branch |-> IF c.block_front # m1[fb].local_tail THEN "non_empty"
                         ELSE IF fb # q.tail_block THEN "advance"
                         ELSE "empty"]

PeekTest ==
    /\ cons.pc = "peek_test"
    /\ LET r == peek_test(mem, queues[cons.h], cons)
       IN  /\ mem' = r.mem
           /\ cons' = [cons EXCEPT !.pc = "peek_act", !.branch = r.branch]
    /\ UNCHANGED <<brk, config, queues, prod, walk, history, nprod, ncons>>

\* the body of the branch taken (lines 226-229, 231-254, 257).  v is what the
\* slot referred to holds.
peek_act(m, q, c, v) ==
    IF c.branch = "non_empty"
    THEN [mem |-> m, some |-> TRUE, value |-> v, panic |-> FALSE]
    ELSE IF c.branch = "advance"
    THEN LET fb == q.front_block
             m1 == [m EXCEPT ![fb].local_tail = m[fb].tail]
             nb == m1[fb].next
         IN  IF m1[fb].front # m1[fb].local_tail
             THEN [mem |-> m1, some |-> TRUE, value |-> v, panic |-> FALSE]
             ELSE IF nb = NULL \/ m1[nb].front = m1[nb].tail
             THEN [mem |-> m1, some |-> FALSE, value |-> 0, panic |-> TRUE]
             ELSE [mem |-> m1, some |-> TRUE, value |-> v, panic |-> FALSE]
    ELSE [mem |-> m, some |-> FALSE, value |-> 0, panic |-> FALSE]

PeekAct ==
    /\ cons.pc = "peek_act"
    /\ \E v \in Uninit :
          LET r == peek_act(mem, queues[cons.h], cons, v)
          IN  /\ mem' = r.mem
              /\ cons' = [cons EXCEPT !.pc = IF r.panic THEN "panic" ELSE "peek_ret",
                                      !.some = r.some,
                                      !.value = IF r.some THEN r.value ELSE 0]
    /\ UNCHANGED <<brk, config, queues, prod, walk, history, nprod, ncons>>

\* peek returns and its guard goes out of scope
PeekReturn ==
    /\ cons.pc = "peek_ret"
    /\ cons' = [ConsIdle EXCEPT !.guard = GuardDrop]
    /\ UNCHANGED <<mem, brk, config, queues, prod, walk, history, nprod, ncons>>

(***************************************************************************)
(* from_other (lines 100-120).  It takes &mut other: no call on other is   *)
(* in progress.                                                            *)
(***************************************************************************)
\* the handle from_other returns (lines 101-111)
from_other_item(other) ==
    [state |-> "live", front_block |-> other.front_block,
     tail_block |-> other.tail_block,
     largest_block_size |-> other.largest_block_size,
     enqueuing |-> FALSE, dequeuing |-> FALSE]

\* other after lines 113-117, given the outcome o of make_block
from_other_donor(other, o) ==
    [other EXCEPT !.largest_block_size = TransferBlockSize,
                  !.front_block = o.block, !.tail_block = o.block]

FromOther ==
    /\ queues["src"].state = "live"
    /\ queues["item"].state = "none"
    /\ prod.pc = "idle"
    /\ cons.pc = "idle"
    /\ LET o == make_block(alloc, mem, brk, TransferBlockSize)
       IN /\ mem' = [o.mem EXCEPT ![o.block].next = o.block]
          /\ brk' = o.brk
          /\ queues' = [queues EXCEPT !["item"] = from_other_item(queues["src"]),
                                      !["src"] = from_other_donor(queues["src"], o)]
    /\ enq' = [enq EXCEPT !["item"] = enq["src"], !["src"] = <<>>]
    /\ refused' = [refused EXCEPT !["item"] = refused["src"], !["src"] = 0]
    /\ growfail' = [growfail EXCEPT !["item"] = growfail["src"], !["src"] = 0]
    /\ deq' = [deq EXCEPT !["item"] = deq["src"], !["src"] = <<>>]
    /\ UNCHANGED <<config, prod, cons, walk, nprod, ncons>>

(***************************************************************************)
(* Drop for ReaderWriterQueue (lines 321-345).                             *)
(***************************************************************************)
\* the slots the inner loop (lines 330-335) runs drop_in_place on, in order
RECURSIVE DropSlots(_, _, _, _)
DropSlots(i, block_tail, size_mask, fuel) ==
    IF i = block_tail \/ fuel = 0 THEN <<>>
    ELSE <<i>> \o DropSlots(BitAnd(i + 1, size_mask), block_tail, size_mask, fuel - 1)

\* lines 323-325
DropBegin(h) ==
    /\ queues[h].state = "live"
    /\ Quiet
    /\ prod.pc = "idle"
    /\ cons.pc = "idle"
    /\ queues' = [queues EXCEPT ![h].state = "dropping"]
    /\ walk' = [h |-> h, block |-> queues[h].front_block, visited |-> <<>>]
    /\ UNCHANGED <<mem, brk, config, prod, cons, history, nprod, ncons>>

\* one turn of the loop (lines 326-343): the block visited, the cursors read
\* and the number of slots drop_in_place ran on (the slots are those of
\* DropSlots); drop(block) and drop(raw_block) drop raw pointers and release
\* nothing
DropBlock ==
    /\ queues[walk.h].state = "dropping"
    /\ Len(walk.visited) < MaxWalk
    /\ LET block == walk.block
           next_block == mem[block].next
           slots == DropSlots(mem[block].front, mem[block].tail,
                              mem[block].size_mask, mem[block].size_mask + 2)
           done == next_block = queues[walk.h].front_block
       IN  /\ walk' = [walk EXCEPT
                         !.block = next_block,
                         !.visited = Append(@, [block |-> block,
                                                front |-> mem[block].front,
                                                tail  |-> mem[block].tail,
                                                n     |-> Len(slots)])]
           /\ queues' = [queues EXCEPT ![walk.h].state =
                           IF done THEN "dropped" ELSE "dropping"]
    /\ UNCHANGED <<mem, brk, config, prod, cons, history, nprod, ncons>>

(***************************************************************************)
(* The specifications.                                                     *)
(***************************************************************************)
\* the whole program: both threads on either handle, from_other and drop
Next ==
    \/ \E h \in Handles : EnqueueCall(h, FALSE, MaxHandleCalls)
    \/ \E h \in Handles : EnqueueCall(h, TRUE, MaxHandleCalls)
    \/ EnqueueBody
    \/ EnqueueReturn
    \/ \E h \in Handles : TryDequeueBegin(h, MaxHandleCalls)
    \/ TryDequeueTest
    \/ TryDequeueAct
    \/ TryDequeueReturn
    \/ \E h \in Handles : PeekBegin(h, MaxHandleCalls)
    \/ PeekTest
    \/ PeekAct
    \/ PeekReturn
    \/ FromOther
    \/ \E h \in Handles : DropBegin(h)
    \/ DropBlock

Spec == Init /\ [][Next]_vars

\* one producer and one consumer on the queue with_size built
NextQueue ==
    \/ EnqueueCall("src", FALSE, MaxEnqueues)
    \/ EnqueueCall("src", TRUE, MaxEnqueues)
    \/ EnqueueBody
    \/ EnqueueReturn
    \/ TryDequeueBegin("src", MaxDequeues)
    \/ TryDequeueTest
    \/ TryDequeueAct
    \/ TryDequeueReturn
    \/ PeekBegin("src", MaxDequeues)
    \/ PeekTest
    \/ PeekAct
    \/ PeekReturn

SpecQueue == Init /\ [][NextQueue]_vars

\* the producer alone, calling try_enqueue on the queue with_size built
NextCapacity ==
    \/ EnqueueCall("src", FALSE, MaxTryEnqueues)
    \/ EnqueueBody
    \/ EnqueueReturn

SpecCapacity == Init /\ [][NextCapacity]_vars

\* the steps a producer-side call takes after it has begun
ProducerStep == EnqueueBody \/ EnqueueReturn

\* the steps a consumer-side call takes after it has begun
ConsumerStep ==
    \/ TryDequeueTest
    \/ TryDequeueAct
    \/ TryDequeueReturn
    \/ PeekTest
    \/ PeekAct
    \/ PeekReturn

\* SpecQueue with each thread scheduled again as long as its call has a step
\* to take; neither thread is bound to begin another call
SpecNonBlocking ==
    Init /\ [][NextQueue]_vars /\ WF_vars(ProducerStep) /\ WF_vars(ConsumerStep)

\* ceil_to_pow2(x) on its own (lines 387-401)
CeilToPow2 ==
    /\ word.pc = "call"
    /\ word' = [word EXCEPT !.pc = "done", !.ret = ceil_to_pow2(word.x),
                            !.wraps = ceil_to_pow2_wraps(word.x)]
    /\ UNCHANGED <<mem, brk, alloc, maxbs, hint, queues, prod, cons, walk,
                   history, nprod, ncons>>

NextCeil == CeilToPow2

SpecCeil == InitCeil /\ [][NextCeil]_vars

(***************************************************************************)
(* Properties.                                                             *)
(***************************************************************************)
IsPrefix(s, t) == Len(s) <= Len(t) /\ \A i \in 1..Len(s) : s[i] = t[i]

Count(s, v) == Cardinality({i \in 1..Len(s) : s[i] = v})

SameBag(s, t) ==
    \A v \in {s[i] : i \in 1..Len(s)} \cup {t[i] : i \in 1..Len(t)} :
        Count(s, v) = Count(t, v)

\* the consumer-side call in progress began with the producer idle, and the
\* producer has started no call since: every enqueue that returned did so
\* before the call began
ProducerStopped == prod.pc = "idle" /\ cons.nprod0 = nprod

\* the blocks of the ring that starts at fb
RingSet(m, fb) == LET w == Walk(m, fb) IN {w[i] : i \in 1..Len(w)}

\* C1: FIFO order.  The values try_dequeue has returned are at every moment a
\* prefix of the values whose enqueue returned true; and a try_dequeue that
\* begins after the enqueues have returned, while some of their values have
\* not been dequeued yet, returns the oldest of those.
C1_FifoOrder ==
    /\ \A h \in Handles : IsPrefix(deq[h], enq[h])
    /\ (cons.pc = "deq_ret" /\ ProducerStopped
          /\ Len(deq[cons.h]) < Len(enq[cons.h]))
       => (cons.some /\ cons.value = enq[cons.h][Len(deq[cons.h]) + 1])

\* C2: no loss or duplication.  When the producer has stopped and a
\* try_dequeue that began afterwards returns None, the consumer has received
\* exactly the multiset of the values whose enqueue returned true.
C2_NoLossNoDuplication ==
    (cons.pc = "deq_ret" /\ ~cons.some /\ ProducerStopped)
    => SameBag(deq[cons.h], enq[cons.h])

\* C3: capacity is honoured.  After with_size(hint), with no dequeue and no
\* growing enqueue, each of the first hint try_enqueue calls returns true.
C3_CapacityHonoured ==
    /\ (prod.pc = "enq_ret" /\ ~prod.can_alloc /\ nprod <= hint) => prod.ok
    /\ (Len(enq["src"]) + refused["src"] <= hint) => refused["src"] = 0

\* the hint-th try_enqueue on a ring of several MAX_BLOCK_SIZE blocks has
\* returned true
C3_Witness ==
    /\ ceil_to_pow2(hint + 1) > maxbs * 2
    /\ prod.pc = "enq_ret" /\ ~prod.can_alloc /\ prod.ok
    /\ nprod = hint
    /\ Len(enq["src"]) = hint - 1
    /\ refused["src"] = 0

\* C4: capacity exhaustion is reported.  After with_size(hint) and hint
\* try_enqueue calls that returned true, with no dequeue, the next try_enqueue
\* returns false.
C4_ExhaustionReported ==
    (prod.pc = "enq_ret" /\ ~prod.can_alloc /\ nprod = hint + 1
       /\ Len(enq["src"]) = hint)
    => ~prod.ok

\* C5: growing enqueue never fails.  Every call of enqueue returns true,
\* whatever the hint, the number of elements enqueued before and the
\* consumer-side calls interleaved with it.
C5_GrowingEnqueueSucceeds ==
    /\ (prod.pc = "enq_ret" /\ prod.can_alloc) => prod.ok
    /\ \A h \in Handles : growfail[h] = 0

\* an enqueue returns true on a queue that already took more elements than
\* its hint, with no consumer-side call made
C5_Witness ==
    /\ prod.pc = "enq_ret" /\ prod.can_alloc /\ prod.ok
    /\ Len(enq["src"]) > hint
    /\ ncons = 0

\* a step of the consumer-side call in progress that runs the body of the
\* branch taken
ConsumerActs == cons.pc \in {"deq_act", "peek_act"} /\ cons'.pc # cons.pc

\* C6: empty-queue contract.  On a queue where every element whose enqueue
\* returned true has been dequeued (a fresh queue among them), try_dequeue and
\* peek return None, and neither moves a read cursor nor front_block.
C6_EmptyQueueContract ==
    [][(ConsumerActs /\ ProducerStopped
          /\ Len(enq[cons.h]) = Len(deq[cons.h]))
       => /\ cons'.pc \in {"deq_ret", "peek_ret"}
          /\ ~cons'.some
          /\ \A b \in Addr : mem'[b].front = mem[b].front
          /\ queues'[cons.h].front_block = queues[cons.h].front_block]_vars

\* C7: size_approx is exact at quiescence.  With no call in progress on either
\* side it equals the number of enqueues that returned true minus the number
\* of dequeues that returned an element.
C7_SizeApproxExact ==
    (prod.pc = "idle" /\ cons.pc = "idle" /\ queues["src"].state = "live")
    => size_approx(mem, queues["src"].front_block)
         = Len(enq["src"]) - Len(deq["src"])

\* C8: teardown safety.  When drop has finished it has visited every block of
\* the ring exactly once and has run the cleanup of exactly the slots that
\* hold an element: as many as were enqueued and not dequeued, and no other.
C8_TeardownSafety ==
    queues[walk.h].state = "dropped"
    => LET v == walk.visited
       IN  /\ \A i, j \in 1..Len(v) : i # j => v[i].block # v[j].block
           /\ {v[i].block : i \in 1..Len(v)}
                = RingSet(mem, queues[walk.h].front_block)
           /\ SumSeq([i \in 1..Len(v) |-> v[i].n])
                = Len(enq[walk.h]) - Len(deq[walk.h])

\* the step is from_other
Transfers == queues["item"].state = "none" /\ queues'["item"].state = "live"

\* the other handle
Other(h) == IF h = "src" THEN "item" ELSE "src"

\* C9: transfer semantics.  from_other hands the ring of src to item as it is
\* and leaves src with one fresh, empty, self-linked block that is no block of
\* item's ring; afterwards a consumer-side step on one handle changes no block
\* of the other's ring, and try_dequeue on the emptied src returns None.
C9_TransferSemantics ==
    [][/\ Transfers
          => LET old == queues["src"]
                 new == queues'["src"]
                 ring == RingSet(mem, old.front_block)
             IN  /\ queues'["item"].front_block = old.front_block
                 /\ queues'["item"].tail_block = old.tail_block
                 /\ queues'["item"].largest_block_size = old.largest_block_size
                 /\ RingSet(mem', queues'["item"].front_block) = ring
                 /\ \A b \in ring : mem'[b] = mem[b]
                 /\ new.front_block = new.tail_block
                 /\ mem'[new.front_block].next = new.front_block
                 /\ mem'[new.front_block].front = mem'[new.front_block].tail
                 /\ new.front_block \notin ring
       /\ (cons.pc # "idle" /\ cons' # cons
             /\ queues[Other(cons.h)].state = "live")
          => /\ queues'[Other(cons.h)] = queues[Other(cons.h)]
             /\ \A b \in RingSet(mem, queues[Other(cons.h)].front_block) :
                   mem'[b] = mem[b]
       /\ (ConsumerActs /\ cons.op = "try_dequeue" /\ cons.h = "src"
             /\ queues["item"].state # "none" /\ ProducerStopped
             /\ enq["src"] = <<>>)
          => ~cons'.some]_vars

PeekSteps == cons.op = "peek" /\ cons' # cons

\* C11: peek does not remove.  A step of peek changes no read cursor and no
\* field of the handle; when peek returns Some(x) with the producer stopped,
\* x is the oldest element enqueued and not yet dequeued; and peek takes the
\* branch, and returns None, exactly where try_dequeue would.
C11_PeekDoesNotRemove ==
    [][/\ PeekSteps
          => /\ \A b \in Addr : mem'[b].front = mem[b].front
             /\ queues' = queues
       /\ (cons.pc = "peek_test")
          => peek_test(mem, queues[cons.h], cons).branch
               = try_dequeue_test(mem, queues[cons.h], cons).branch
       /\ (cons.pc = "peek_act")
          => \A v \in Uninit :
                peek_act(mem, queues[cons.h], cons, v).some
                  = try_dequeue_act(mem, queues[cons.h], cons, v).some
       /\ (cons.pc = "peek_act" /\ cons'.pc = "peek_ret" /\ cons'.some
             /\ ProducerStopped)
          => /\ Len(deq[cons.h]) < Len(enq[cons.h])
             /\ cons'.value = enq[cons.h][Len(deq[cons.h]) + 1]]_vars

\* C12: misuse detection.  While a producer-side call is in progress the
\* guard refuses a second one (enqueuing is set), while a consumer-side call
\* is in progress the guard refuses a second one (dequeuing is set), and with
\* no call in progress on a side its flag is clear.
C12_MisuseDetected ==
    /\ prod.pc # "idle" => ~GuardAdmits(queues[prod.h].enqueuing)
    /\ cons.pc # "idle" => ~GuardAdmits(queues[cons.h].dequeuing)
    /\ prod.pc = "idle" => \A h \in Handles : ~queues[h].enqueuing
    /\ cons.pc = "idle" => \A h \in Handles : ~queues[h].dequeuing

\* C13: non-blocking.  In every state a call in progress has a step of its
\* own to take, whatever the position of the other thread, and it returns
\* once it has been given its steps: no call waits for the other side.
C13_NonBlocking ==
    /\ [](prod.pc # "idle" => ENABLED ProducerStep)
    /\ [](cons.pc # "idle" => ENABLED ConsumerStep)
    /\ (prod.pc # "idle") ~> (prod.pc = "idle")
    /\ (cons.pc # "idle") ~> (cons.pc = "idle")

\* a try_dequeue is about to return None while the producer is stopped in
\* the middle of a try_enqueue
C13_Witness ==
    /\ cons.pc = "deq_ret" /\ ~cons.some
    /\ prod.pc = "enq_body" /\ ~prod.can_alloc

\* C15: dequeue transfers ownership.  When try_dequeue returns Some(x) the
\* queue has not run the cleanup of x itself: x is the caller's to clean up,
\* once.
C15_DequeueTransfersOwnership ==
    (cons.pc = "deq_ret" /\ cons.some) => ~cons.cleaned

\* the links of the ring of handle h: it has a block, no next is null, the walk
\* from any of its blocks comes back to that block, and tail_block is on it
RingLinked(h) ==
    LET fb == queues[h].front_block
        ring == RingSet(mem, fb)
    IN  /\ fb # NULL
        /\ \A b \in ring :
              LET w == Walk(mem, b)
              IN  /\ mem[b].next # NULL
                  /\ mem[w[Len(w)]].next = b
                  /\ {w[i] : i \in 1..Len(w)} = ring
        /\ queues[h].tail_block \in ring

\* C16: ring invariant.  In every reachable state the ring of every handle is
\* linked into one cycle that front_block and tail_block are on, and what
\* they point at are blocks: storage that has not been given back.
C16_RingInvariant ==
    \A h \in Handles :
        queues[h].state = "live"
        => /\ RingLinked(h)
           /\ \A b \in RingSet(mem, queues[h].front_block) : ~mem[b].freed

\* C17: reserved-slot invariant.  Both cursors of every block of the ring lie
\* in 0..capacity-1 and a block holds at most capacity-1 elements; with no
\* call in progress the blocks hold, by their cursors, exactly the elements
\* enqueued and not dequeued (so equal cursors everywhere mean none is held),
\* and size_approx() <= max_capacity().
C17_ReservedSlot ==
    LET fb == queues["src"].front_block
    IN  queues["src"].state = "live"
        => /\ \A b \in RingSet(mem, fb) :
                 /\ mem[b].front \in 0..mem[b].size_mask
                 /\ mem[b].tail \in 0..mem[b].size_mask
                 /\ BitAnd((mem[b].tail - mem[b].front) % WordMod, mem[b].size_mask)
                      <= mem[b].size_mask
           /\ (prod.pc = "idle" /\ cons.pc = "idle")
              => /\ size_approx(mem, fb) = Len(enq["src"]) - Len(deq["src"])
                 /\ size_approx(mem, fb) <= max_capacity(mem, fb)

\* the quotient a / b rounded up
CeilDiv(a, b) == (a + b - 1) \div b

\* hints and block sizes the block count of with_size is computed for
SizingHints == 0..(4 * MaxHint)
SizingBlockSizes == {2, 4, 8}

\* C18: construction sizing.  With target = ceil_to_pow2(hint + 1), the queue
\* with_size returns has one self-linked block of capacity target if
\* target <= 2 * MAX_BLOCK_SIZE, and otherwise
\* ceil((hint + 2 * MAX_BLOCK_SIZE - 3) / (MAX_BLOCK_SIZE - 1)) blocks of
\* capacity MAX_BLOCK_SIZE in one cycle; front_block and tail_block are the
\* first block and every cursor is 0.
C18_ConstructionSizing ==
    /\ (nprod = 0 /\ ncons = 0 /\ queues["src"].state = "live"
          /\ queues["item"].state = "none")
       => LET target == ceil_to_pow2(hint + 1)
              many == target > 2 * maxbs
              fb == queues["src"].front_block
              w == Walk(mem, fb)
          IN  /\ Len(w) = IF many THEN CeilDiv(hint + 2 * maxbs - 3, maxbs - 1)
                          ELSE 1
              /\ mem[w[Len(w)]].next = fb
              /\ queues["src"].tail_block = fb
              /\ \A i \in 1..Len(w) :
                    /\ mem[w[i]].size_mask + 1 = IF many THEN maxbs ELSE target
                    /\ mem[w[i]].front = 0 /\ mem[w[i]].tail = 0
                    /\ mem[w[i]].local_front = 0 /\ mem[w[i]].local_tail = 0
    /\ \A n \in SizingHints : \A mbs \in SizingBlockSizes :
          ceil_to_pow2(n + 1) > 2 * mbs
          => initial_block_count(n, mbs) = CeilDiv(n + 2 * mbs - 3, mbs - 1)

\* C19: single-writer discipline.  A step of a producer-side call changes no
\* block's front or local_tail and no handle's front_block; a step of a
\* consumer-side call changes no block's tail, local_front or next and no
\* handle's tail_block.
C19_SingleWriter ==
    [][/\ prod' # prod
          => /\ \A b \in Addr : /\ mem'[b].front = mem[b].front
                                /\ mem'[b].local_tail = mem[b].local_tail
             /\ \A h \in Handles : queues'[h].front_block = queues[h].front_block
       /\ cons' # cons
          => /\ \A b \in Addr : /\ mem'[b].tail = mem[b].tail
                                /\ mem'[b].local_front = mem[b].local_front
                                /\ mem'[b].next = mem[b].next
             /\ \A h \in Handles : queues'[h].tail_block = queues[h].tail_block]_vars

\* a try_dequeue has taken from a slot and published the advanced read cursor
\* after a producer-side call returned true
C19_Witness ==
    /\ cons.pc = "deq_ret" /\ cons.some
    /\ mem[cons.front_block_].front
         = BitAnd(cons.block_front + 1, mem[cons.front_block_].size_mask)
    /\ prod.pc = "idle" /\ Len(enq[cons.h]) > 0

\* the powers of two a word holds
Pow2s == {2 ^ k : k \in 0..(WordBits - 1)}

\* C20: ceil_to_pow2 is exact.  For every x with 0 <= x <= 2^(w-1) the result
\* is the smallest power of two that is >= x, and neither x - 1 nor x + 1
\* leaves the word.
C20_CeilToPow2Exact ==
    (word.pc = "done" /\ word.x <= 2 ^ (WordBits - 1))
    => /\ ~word.wraps
       /\ word.ret \in Pow2s
       /\ word.ret >= word.x
       /\ \A p \in Pow2s : p >= word.x => p >= word.ret

====
